---- MODULE Spec2Model ----
(***************************************************************************)
(* Model of two thread-to-async bridges of vocode:                         *)
(*   - LlamacppAgent (streaming/agent/llamacpp_agent.py): the event loop   *)
(*     callers (respond, generate_response), the single-thread executor    *)
(*     running ConversationChain.predict, the callback handler and the     *)
(*     agent's one callback_queue;                                         *)
(*   - MiniaudioWorker (streaming/synthesizer/miniaudio_worker.py): the    *)
(*     decode loop between the input and the output janus queues.          *)
(* The two halves share no state; Spec is the agent, SpecAudio the worker. *)
(* SpecCtor is LlamacppAgent.__init__ followed by calls on the agent.      *)
(***************************************************************************)
EXTENDS Integers, Sequences, FiniteSets, TLC

\* ------------------------------------------------------------------ bounds
MaxCalls == 2
MaxTokens == 2
MaxFeed == 4
MaxCtorCalls == 1

Calls == 1..MaxCalls

VARIABLES
    \* ---- LlamacppAgent
    kind,            \* per call: "none" | "respond" | "generate"
    cst,             \* per call: where the caller's coroutine / generator is
    pst,             \* per call: where the submitted predict call is
    emitted,         \* per call: tokens the backend has produced so far
    yielded,         \* per call: CallbackOutputs yielded by stream(), the inner
                     \* generator of generate_response (stream_response_async,
                     \* which regroups their text for the caller, is not modelled)
    endedBy,         \* per call: the call whose finish marker ended stream()
    work_queue,      \* thread_pool_executor's pending work items (FIFO)
    callback_queue,  \* self.callback_queue: items of the asyncio.Queue
    getters,         \* self.callback_queue._getters: suspended readers (FIFO)
    memory,          \* self.memory.chat_memory.messages
    overlapped,      \* history: some call was submitted while another was in progress
    afterFail,       \* history: a predict had failed before this call was submitted
    \* ---- LlamacppAgent.__init__
    prompt_template, \* agent_config.prompt_template
    init_pc,         \* position of __init__
    prompt,          \* self.prompt
    created,         \* attributes __init__ has created so far
    \* ---- MiniaudioWorker
    synthesizer_config,  \* self.synthesizer_config
    input_janus_queue,   \* items fed and not yet taken
    output_janus_queue,  \* items put on the output channel, in write order
    wpc,                 \* position of _run_loop
    cur,                 \* (mp3_chunk, is_last) of the current iteration
    output_bytes_io,     \* local of the current iteration
    fed,                 \* history: every item ever fed
    taken,               \* history: number of items taken from the input
    out_src              \* history: for each output item, the index of its input

agentVars == <<kind, cst, pst, emitted, yielded, endedBy, work_queue,
               callback_queue, getters, memory, overlapped, afterFail>>
audioVars == <<synthesizer_config, input_janus_queue, output_janus_queue, wpc,
               cur, output_bytes_io, fed, taken, out_src>>
ctorVars == <<prompt_template, init_pc, prompt, created>>
vars == <<agentVars, audioVars, ctorVars>>

\* ================================================================== agent

\* CallbackOutput(token=token) and CallbackOutput(finish=True, response=...).
\* A token is identified by the predict call that produced it and its rank.
TokenOutput(c, i) == [call |-> c, token |-> i, finish |-> FALSE]
FinishOutput(c) == [call |-> c, token |-> 0, finish |-> TRUE]

\* The tokens predict call c has produced so far, in generation order.
OwnTokens(c) == [i \in 1..emitted[c] |-> TokenOutput(c, i)]

\* Conversation turns kept by ConversationBufferMemory: the preamble, the
\* human_input of call c, and the text predict call c returned (its tokens).
SystemMessage == [role |-> "system", call |-> 0, text |-> <<>>]
HumanMessage(c) == [role |-> "human", call |-> c, text |-> <<>>]
AIMessage(c) == [role |-> "ai", call |-> c, text |-> OwnTokens(c)]

\* Callers whose call is in progress on the event loop.
InProgress == {d \in Calls : cst[d] \in {"awaiting", "sawEmpty", "waiting", "woken", "yielded"}}

\* The event loop runs one callback at a time: a reader that has evaluated
\* empty() in Queue.get and has not yet appended its getter is mid-callback.
LoopFree(c) == \A d \in Calls \ {c} : cst[d] # "sawEmpty"

\* Calls are numbered in the order they are made.
NextCall(c) == kind[c] = "none" /\ \A d \in 1..(c - 1) : kind[d] # "none"

AgentInit ==
    /\ kind = [c \in Calls |-> "none"]
    /\ cst = [c \in Calls |-> "none"]
    /\ pst = [c \in Calls |-> "none"]
    /\ emitted = [c \in Calls |-> 0]
    /\ yielded = [c \in Calls |-> <<>>]
    /\ endedBy = [c \in Calls |-> 0]
    /\ work_queue = <<>>
    /\ callback_queue = <<>>
    /\ getters = <<>>
    /\ memory = <<SystemMessage>>
    /\ overlapped = FALSE
    /\ afterFail = [c \in Calls |-> FALSE]


\* ---- asyncio.Queue, as used by the handler (put_nowait) and stream() (get)

\* Mutant of PutNowait: the write waits until a reader is suspended on the queue.
PutNowait_Rendezvous(o) ==
    /\ getters # <<>>
    /\ callback_queue' = Append(callback_queue, o)
    /\ getters' = Tail(getters)
    /\ cst' = [cst EXCEPT ![Head(getters)] = "woken"]

\* Queue.put_nowait(item): append, then _wakeup_next(self._getters) resolves
\* the future of the first suspended reader, if there is one.
PutNowait(o) ==
    /\ callback_queue' = Append(callback_queue, o)
    /\ IF getters # <<>>
       THEN /\ getters' = Tail(getters)
            /\ cst' = [cst EXCEPT ![Head(getters)] = "woken"]
       ELSE UNCHANGED <<getters, cst>>

\* Mutant of GetStep: stream() yields the finish marker before it stops.
GetStep_YieldsFinish(c) ==
    IF callback_queue = <<>>
    THEN /\ cst' = [cst EXCEPT ![c] = "sawEmpty"]
         /\ UNCHANGED <<callback_queue, yielded, endedBy>>
    ELSE LET o == Head(callback_queue) IN
         /\ callback_queue' = Tail(callback_queue)
         /\ yielded' = [yielded EXCEPT ![c] = Append(@, o)]
         /\ IF o.finish
            THEN /\ cst' = [cst EXCEPT ![c] = "ended"]
                 /\ endedBy' = [endedBy EXCEPT ![c] = o.call]
            ELSE /\ cst' = [cst EXCEPT ![c] = "yielded"]
                 /\ UNCHANGED endedBy

\* One pass of stream() from the test `while self.empty()` of Queue.get on:
\* an empty queue leaves the reader about to append its getter; otherwise
\* get_nowait pops the head, a finish marker breaks the loop without a
\* yield, and any other item is yielded to the caller.
GetStep(c) ==
    IF callback_queue = <<>>
    THEN /\ cst' = [cst EXCEPT ![c] = "sawEmpty"]
         /\ UNCHANGED <<callback_queue, yielded, endedBy>>
    ELSE LET o == Head(callback_queue) IN
         /\ callback_queue' = Tail(callback_queue)
         /\ IF o.finish
            THEN /\ cst' = [cst EXCEPT ![c] = "ended"]
                 /\ endedBy' = [endedBy EXCEPT ![c] = o.call]
                 /\ UNCHANGED yielded
            ELSE /\ cst' = [cst EXCEPT ![c] = "yielded"]
                 /\ yielded' = [yielded EXCEPT ![c] = Append(@, o)]
                 /\ UNCHANGED endedBy

\* run_in_executor(self.thread_pool_executor, lambda ...predict..., human_input)
Submit(c) ==
    /\ work_queue' = Append(work_queue, c)
    /\ pst' = [pst EXCEPT ![c] = "queued"]
    /\ overlapped' = (overlapped \/ InProgress \ {c} # {})
    /\ afterFail' = [afterFail EXCEPT ![c] = \E d \in Calls : pst[d] = "failed"]

\* ---- event loop: respond

\* respond() up to its await: the predict call is submitted to the executor.
Respond(c) ==
    /\ init_pc = "constructed"
    /\ NextCall(c)
    /\ LoopFree(c)
    /\ kind' = [kind EXCEPT ![c] = "respond"]
    /\ cst' = [cst EXCEPT ![c] = "awaiting"]
    /\ Submit(c)
    /\ UNCHANGED <<emitted, yielded, endedBy, callback_queue, getters, memory>>
    /\ UNCHANGED <<audioVars, ctorVars>>

\* The awaited future holds predict's text: respond returns (text, False).
RespondReturn(c) ==
    /\ kind[c] = "respond"
    /\ cst[c] = "awaiting"
    /\ pst[c] = "returned"
    /\ LoopFree(c)
    /\ cst' = [cst EXCEPT ![c] = "returned"]
    /\ UNCHANGED <<kind, pst, emitted, yielded, endedBy, work_queue,
                   callback_queue, getters, memory, overlapped, afterFail>>
    /\ UNCHANGED <<audioVars, ctorVars>>

\* The awaited future holds predict's exception: the await re-raises it.
RespondRaise(c) ==
    /\ kind[c] = "respond"
    /\ cst[c] = "awaiting"
    /\ pst[c] = "failed"
    /\ LoopFree(c)
    /\ cst' = [cst EXCEPT ![c] = "raised"]
    /\ UNCHANGED <<kind, pst, emitted, yielded, endedBy, work_queue,
                   callback_queue, getters, memory, overlapped, afterFail>>
    /\ UNCHANGED <<audioVars, ctorVars>>

\* ---- event loop: generate_response

\* Mutant of GenerateResponse: the predict call is submitted by the call itself.
GenerateResponse_Eager(c) ==
    /\ init_pc = "constructed"
    /\ NextCall(c)
    /\ LoopFree(c)
    /\ kind' = [kind EXCEPT ![c] = "generate"]
    /\ cst' = [cst EXCEPT ![c] = "created"]
    /\ Submit(c)
    /\ UNCHANGED <<emitted, yielded, endedBy, callback_queue, getters, memory>>
    /\ UNCHANGED <<audioVars, ctorVars>>

\* Calling generate_response only creates the async generator object.
GenerateResponse(c) ==
    /\ init_pc = "constructed"
    /\ NextCall(c)
    /\ LoopFree(c)
    /\ kind' = [kind EXCEPT ![c] = "generate"]
    /\ cst' = [cst EXCEPT ![c] = "created"]
    /\ UNCHANGED <<pst, emitted, yielded, endedBy, work_queue, callback_queue,
                   getters, memory, overlapped, afterFail>>
    /\ UNCHANGED <<audioVars, ctorVars>>

\* The first pull runs the generator body: the predict call is submitted (its
\* future is dropped), then stream() makes its first read of the queue.
FirstPull(c) ==
    /\ kind[c] = "generate"
    /\ cst[c] = "created"
    /\ LoopFree(c)
    /\ Submit(c)
    /\ GetStep(c)
    /\ UNCHANGED <<kind, emitted, getters, memory>>
    /\ UNCHANGED <<audioVars, ctorVars>>

\* The caller asks for the next item: stream() loops to its next read.
NextPull(c) ==
    /\ kind[c] = "generate"
    /\ cst[c] = "yielded"
    /\ LoopFree(c)
    /\ GetStep(c)
    /\ UNCHANGED <<kind, pst, emitted, work_queue, getters, memory,
                   overlapped, afterFail>>
    /\ UNCHANGED <<audioVars, ctorVars>>

\* Queue.get, after empty() was true: the getter future is appended and awaited.
RegisterGetter(c) ==
    /\ cst[c] = "sawEmpty"
    /\ getters' = Append(getters, c)
    /\ cst' = [cst EXCEPT ![c] = "waiting"]
    /\ UNCHANGED <<kind, pst, emitted, yielded, endedBy, work_queue,
                   callback_queue, memory, overlapped, afterFail>>
    /\ UNCHANGED <<audioVars, ctorVars>>

\* A reader whose getter future was resolved runs again: Queue.get re-tests empty().
Resume(c) ==
    /\ cst[c] = "woken"
    /\ LoopFree(c)
    /\ GetStep(c)
    /\ UNCHANGED <<kind, pst, emitted, work_queue, getters, memory,
                   overlapped, afterFail>>
    /\ UNCHANGED <<audioVars, ctorVars>>

\* The caller stops iterating before stream() has read a finish marker.
Abandon(c) ==
    /\ kind[c] = "generate"
    /\ cst[c] = "yielded"
    /\ LoopFree(c)
    /\ cst' = [cst EXCEPT ![c] = "abandoned"]
    /\ UNCHANGED <<kind, pst, emitted, yielded, endedBy, work_queue,
                   callback_queue, getters, memory, overlapped, afterFail>>
    /\ UNCHANGED <<audioVars, ctorVars>>

\* ---- executor thread (ThreadPoolExecutor(max_workers=1))

WorkerBusy == \E d \in Calls : pst[d] \in {"generating", "llm_end"}

\* Mutant of PredictStart: the worker takes the newest work item.
PredictStart_Newest(c) ==
    /\ ~WorkerBusy
    /\ work_queue # <<>>
    /\ work_queue[Len(work_queue)] = c
    /\ work_queue' = SubSeq(work_queue, 1, Len(work_queue) - 1)
    /\ pst' = [pst EXCEPT ![c] = "generating"]
    /\ UNCHANGED <<kind, cst, emitted, yielded, endedBy, callback_queue,
                   getters, memory, overlapped, afterFail>>
    /\ UNCHANGED <<audioVars, ctorVars>>

\* The single worker takes the oldest work item and enters conversation.predict.
PredictStart(c) ==
    /\ ~WorkerBusy
    /\ work_queue # <<>>
    /\ Head(work_queue) = c
    /\ work_queue' = Tail(work_queue)
    /\ pst' = [pst EXCEPT ![c] = "generating"]
    /\ UNCHANGED <<kind, cst, emitted, yielded, endedBy, callback_queue,
                   getters, memory, overlapped, afterFail>>
    /\ UNCHANGED <<audioVars, ctorVars>>

\* Tokens produced so far by the calls 1..n together.
RECURSIVE EmittedUpTo(_)
EmittedUpTo(n) == IF n = 0 THEN 0 ELSE emitted[n] + EmittedUpTo(n - 1)

\* CustomStreamingCallbackHandler.on_llm_new_token (MaxTokens caps the
\* tokens of all calls together)
OnLlmNewToken(c) ==
    /\ pst[c] = "generating"
    /\ EmittedUpTo(MaxCalls) < MaxTokens
    /\ emitted' = [emitted EXCEPT ![c] = @ + 1]
    /\ PutNowait(TokenOutput(c, emitted[c] + 1))
    /\ UNCHANGED <<kind, pst, yielded, endedBy, work_queue, memory,
                   overlapped, afterFail>>
    /\ UNCHANGED <<audioVars, ctorVars>>

\* Mutant of OnLlmEnd: the finish marker is put twice.
OnLlmEnd_Twice(c) ==
    /\ pst[c] = "generating"
    /\ pst' = [pst EXCEPT ![c] = "llm_end"]
    /\ callback_queue' = callback_queue \o <<FinishOutput(c), FinishOutput(c)>>
    /\ UNCHANGED <<kind, cst, getters, emitted, yielded, endedBy, work_queue,
                   memory, overlapped, afterFail>>
    /\ UNCHANGED <<audioVars, ctorVars>>

\* CustomStreamingCallbackHandler.on_llm_end
OnLlmEnd(c) ==
    /\ pst[c] = "generating"
    /\ pst' = [pst EXCEPT ![c] = "llm_end"]
    /\ PutNowait(FinishOutput(c))
    /\ UNCHANGED <<kind, emitted, yielded, endedBy, work_queue, memory,
                   overlapped, afterFail>>
    /\ UNCHANGED <<audioVars, ctorVars>>

\* Mutant of SaveContext: only the response is saved.
SaveContext_ResponseOnly(c) == memory \o <<AIMessage(c)>>

\* ConversationChain saves the exchange in its memory when the LLM call has
\* returned: the human input, then the response text.
SaveContext(c) == memory \o <<HumanMessage(c), AIMessage(c)>>

\* predict returns its text: the exchange is saved, the work item's future
\* gets the result and the worker is free again.
PredictReturn(c) ==
    /\ pst[c] = "llm_end"
    /\ memory' = SaveContext(c)
    /\ pst' = [pst EXCEPT ![c] = "returned"]
    /\ UNCHANGED <<kind, cst, emitted, yielded, endedBy, work_queue,
                   callback_queue, getters, overlapped, afterFail>>
    /\ UNCHANGED <<audioVars, ctorVars>>

\* predict raises: on_llm_end is not called and nothing is saved; the executor
\* stores the exception in the work item's future and the worker is free again.
PredictFail(c) ==
    /\ pst[c] = "generating"
    /\ pst' = [pst EXCEPT ![c] = "failed"]
    /\ UNCHANGED <<kind, cst, emitted, yielded, endedBy, work_queue,
                   callback_queue, getters, memory, overlapped, afterFail>>
    /\ UNCHANGED <<audioVars, ctorVars>>

\* ================================================================== construction

\* agent_config.prompt_template: a string, None, or a template object.
StrTemplate(v) == [type |-> "str", value |-> v]
NoTemplate == [type |-> "NoneType", value |-> "None"]
TemplateObject == [type |-> "PromptTemplate", value |-> "custom"]
Templates == {StrTemplate("alpaca"), StrTemplate("unknown"), StrTemplate(""),
              NoTemplate, TemplateObject}

\* The values self.prompt can take.
AlpacaPrompt == [class |-> "FormatHistoryPromptTemplate", template |-> "ALPACA_TEMPLATE_WITH_HISTORY"]
DefaultChatPrompt == [class |-> "ChatPromptTemplate", template |-> "history, {input}"]
CustomPrompt == [class |-> "PromptTemplate", template |-> "custom"]
NoPrompt == [class |-> "unset", template |-> "unset"]

\* __init__ has returned: every attribute exists.
AllCreated == {"callback_queue", "llm", "memory", "conversation", "thread_pool_executor"}

\* The state of a constructed agent, for the specifications that start after __init__.
Constructed ==
    /\ prompt_template = NoTemplate
    /\ init_pc = "constructed"
    /\ prompt = DefaultChatPrompt
    /\ created = AllCreated

\* Mutant of InitRaise: an unknown name falls back to the default prompt.
InitRaise_Default ==
    /\ init_pc = "start"
    /\ prompt_template.type = "str"
    /\ prompt_template.value # "alpaca"
    /\ prompt' = DefaultChatPrompt
    /\ init_pc' = "prompt_set"
    /\ UNCHANGED <<prompt_template, created>>
    /\ UNCHANGED <<agentVars, audioVars>>

\* prompt_template is a string other than "alpaca": ValueError, __init__ ends.
InitRaise ==
    /\ init_pc = "start"
    /\ prompt_template.type = "str"
    /\ prompt_template.value # "alpaca"
    /\ init_pc' = "raised"
    /\ UNCHANGED <<prompt_template, prompt, created>>
    /\ UNCHANGED <<agentVars, audioVars>>

\* The prompt is chosen: the alpaca template for "alpaca", otherwise the given
\* template object, or the default chat prompt when none is given.
InitPrompt ==
    /\ init_pc = "start"
    /\ prompt_template.type = "str" => prompt_template.value = "alpaca"
    /\ prompt' = IF prompt_template.type = "str" THEN AlpacaPrompt
                 ELSE IF prompt_template = NoTemplate THEN DefaultChatPrompt
                 ELSE CustomPrompt
    /\ init_pc' = "prompt_set"
    /\ UNCHANGED <<prompt_template, created>>
    /\ UNCHANGED <<agentVars, audioVars>>

\* self.callback_queue, the callback handler and self.llm are created.
InitBackend ==
    /\ init_pc = "prompt_set"
    /\ created' = created \cup {"callback_queue", "llm"}
    /\ init_pc' = "backend_created"
    /\ UNCHANGED <<prompt_template, prompt>>
    /\ UNCHANGED <<agentVars, audioVars>>

\* self.memory is created with the system preamble, then self.conversation.
InitMemory ==
    /\ init_pc = "backend_created"
    /\ memory' = <<SystemMessage>>
    /\ created' = created \cup {"memory", "conversation"}
    /\ init_pc' = "memory_created"
    /\ UNCHANGED <<prompt_template, prompt>>
    /\ UNCHANGED <<kind, cst, pst, emitted, yielded, endedBy, work_queue,
                   callback_queue, getters, overlapped, afterFail>>
    /\ UNCHANGED audioVars

\* self.thread_pool_executor is created and __init__ returns the agent.
InitExecutor ==
    /\ init_pc = "memory_created"
    /\ created' = created \cup {"thread_pool_executor"}
    /\ init_pc' = "constructed"
    /\ UNCHANGED <<prompt_template, prompt>>
    /\ UNCHANGED <<agentVars, audioVars>>

\* ================================================================== audio

\* An item is <<mp3_chunk, is_last>>; None is Python's None.
None == [none |-> TRUE]
Mp3(n) == [mp3 |-> n]

\* The chunks fed in the model: "A" and "B" decode and resample, "X" makes
\* decode_mp3 raise miniaudio.DecodeError, "U" decodes and makes convert_wav raise.
Chunks == {Mp3("A"), Mp3("B"), Mp3("X"), Mp3("U")}
Items == (Chunks \cup {None}) \X BOOLEAN

DecodeFails(chunk) == chunk = Mp3("X")
ResampleFails(chunk) == chunk = Mp3("U")

\* decode_mp3(mp3_chunk), when it returns
DecodeMp3(chunk) == [pcm |-> chunk.mp3]

\* convert_wav(output_bytes_io, output_sample_rate=..., output_encoding=...)
ConvertWav(decoded, config) ==
    [wav |-> decoded.pcm, sampling_rate |-> config.sampling_rate,
     audio_encoding |-> config.audio_encoding]

Configs == {[sampling_rate |-> 8000, audio_encoding |-> "mulaw"],
            [sampling_rate |-> 16000, audio_encoding |-> "linear16"]}

AudioIdle ==
    /\ input_janus_queue = <<>>
    /\ output_janus_queue = <<>>
    /\ wpc = "WaitingForChunk"
    /\ cur = <<None, FALSE>>
    /\ output_bytes_io = None
    /\ fed = <<>>
    /\ taken = 0
    /\ out_src = <<>>

\* self.output_janus_queue.sync_q.put(item)
OutputPut(item) ==
    /\ output_janus_queue' = Append(output_janus_queue, item)
    /\ out_src' = Append(out_src, taken)

\* The producer side puts one more item on the input channel.
Feed(item) ==
    /\ Len(fed) < MaxFeed
    /\ input_janus_queue' = Append(input_janus_queue, item)
    /\ fed' = Append(fed, item)
    /\ UNCHANGED <<synthesizer_config, output_janus_queue, wpc, cur,
                   output_bytes_io, taken, out_src>>
    /\ UNCHANGED <<agentVars, ctorVars>>

\* Mutant of GetEndOfStream: the marker put on the output keeps the item's own
\* is_last flag.
GetEndOfStream_KeepsFlag ==
    /\ wpc = "WaitingForChunk"
    /\ input_janus_queue # <<>>
    /\ Head(input_janus_queue)[1] = None
    /\ input_janus_queue' = Tail(input_janus_queue)
    /\ cur' = Head(input_janus_queue)
    /\ taken' = taken + 1
    /\ output_janus_queue' = Append(output_janus_queue, <<None, Head(input_janus_queue)[2]>>)
    /\ out_src' = Append(out_src, taken + 1)
    /\ UNCHANGED <<synthesizer_config, wpc, output_bytes_io, fed>>
    /\ UNCHANGED <<agentVars, ctorVars>>

\* sync_q.get() returns an item whose mp3_chunk is None: (None, True) is put
\* on the output and the loop continues with the next get.
GetEndOfStream ==
    /\ wpc = "WaitingForChunk"
    /\ input_janus_queue # <<>>
    /\ Head(input_janus_queue)[1] = None
    /\ input_janus_queue' = Tail(input_janus_queue)
    /\ cur' = Head(input_janus_queue)
    /\ taken' = taken + 1
    /\ output_janus_queue' = Append(output_janus_queue, <<None, TRUE>>)
    /\ out_src' = Append(out_src, taken + 1)
    /\ UNCHANGED <<synthesizer_config, wpc, output_bytes_io, fed>>
    /\ UNCHANGED <<agentVars, ctorVars>>

\* sync_q.get() returns an item with a chunk: the loop goes on to decode it.
GetChunk ==
    /\ wpc = "WaitingForChunk"
    /\ input_janus_queue # <<>>
    /\ Head(input_janus_queue)[1] # None
    /\ input_janus_queue' = Tail(input_janus_queue)
    /\ cur' = Head(input_janus_queue)
    /\ taken' = taken + 1
    /\ wpc' = "Decoding"
    /\ UNCHANGED <<synthesizer_config, output_janus_queue, output_bytes_io, fed,
                   out_src>>
    /\ UNCHANGED <<agentVars, ctorVars>>

\* Mutant of DecodeOk: audio of the previous chunk is carried over.
DecodeOk_Carry ==
    /\ wpc = "Decoding"
    /\ ~DecodeFails(cur[1])
    /\ output_bytes_io' = IF output_bytes_io = None THEN DecodeMp3(cur[1])
                          ELSE [pcm |-> output_bytes_io.wav]
    /\ wpc' = "Resampling"
    /\ UNCHANGED <<synthesizer_config, input_janus_queue, output_janus_queue,
                   cur, fed, taken, out_src>>
    /\ UNCHANGED <<agentVars, ctorVars>>

\* decode_mp3 returns the decoded audio.
DecodeOk ==
    /\ wpc = "Decoding"
    /\ ~DecodeFails(cur[1])
    /\ output_bytes_io' = DecodeMp3(cur[1])
    /\ wpc' = "Resampling"
    /\ UNCHANGED <<synthesizer_config, input_janus_queue, output_janus_queue,
                   cur, fed, taken, out_src>>
    /\ UNCHANGED <<agentVars, ctorVars>>

\* Mutant of DecodeError: the error ends the loop after the marker is put.
DecodeError_Exits ==
    /\ wpc = "Decoding"
    /\ DecodeFails(cur[1])
    /\ OutputPut(<<None, TRUE>>)
    /\ wpc' = "Exited"
    /\ UNCHANGED <<synthesizer_config, input_janus_queue, cur, output_bytes_io,
                   fed, taken>>
    /\ UNCHANGED <<agentVars, ctorVars>>

\* Mutant of DecodeError: the error is logged and the loop continues without
\* putting anything on the output.
DecodeError_Silent ==
    /\ wpc = "Decoding"
    /\ DecodeFails(cur[1])
    /\ wpc' = "WaitingForChunk"
    /\ UNCHANGED <<synthesizer_config, input_janus_queue, output_janus_queue,
                   cur, output_bytes_io, fed, taken, out_src>>
    /\ UNCHANGED <<agentVars, ctorVars>>

\* decode_mp3 raises miniaudio.DecodeError: it is logged, (None, True) is put
\* on the output and the loop continues with the next get.
DecodeError ==
    /\ wpc = "Decoding"
    /\ DecodeFails(cur[1])
    /\ OutputPut(<<None, TRUE>>)
    /\ wpc' = "WaitingForChunk"
    /\ UNCHANGED <<synthesizer_config, input_janus_queue, cur, output_bytes_io,
                   fed, taken>>
    /\ UNCHANGED <<agentVars, ctorVars>>

\* convert_wav returns the audio in the configured rate and encoding.
ResampleOk ==
    /\ wpc = "Resampling"
    /\ ~ResampleFails(cur[1])
    /\ output_bytes_io' = ConvertWav(output_bytes_io, synthesizer_config)
    /\ wpc' = "Emitting"
    /\ UNCHANGED <<synthesizer_config, input_janus_queue, output_janus_queue,
                   cur, fed, taken, out_src>>
    /\ UNCHANGED <<agentVars, ctorVars>>

\* convert_wav raises: nothing in _run_loop catches it, so the loop, and the
\* thread running it, end.
ResampleError ==
    /\ wpc = "Resampling"
    /\ ResampleFails(cur[1])
    /\ wpc' = "Exited"
    /\ UNCHANGED <<synthesizer_config, input_janus_queue, output_janus_queue,
                   cur, output_bytes_io, fed, taken, out_src>>
    /\ UNCHANGED <<agentVars, ctorVars>>

\* Mutant of EmitChunk: the chunk is put in front of the pending output.
EmitChunk_Front ==
    /\ wpc = "Emitting"
    /\ output_janus_queue' = <<<<output_bytes_io, cur[2]>>>> \o output_janus_queue
    /\ out_src' = <<taken>> \o out_src
    /\ wpc' = "WaitingForChunk"
    /\ UNCHANGED <<synthesizer_config, input_janus_queue, cur, output_bytes_io,
                   fed, taken>>
    /\ UNCHANGED <<agentVars, ctorVars>>

\* (output_bytes_io, is_last) is put on the output; next iteration.
EmitChunk ==
    /\ wpc = "Emitting"
    /\ OutputPut(<<output_bytes_io, cur[2]>>)
    /\ wpc' = "WaitingForChunk"
    /\ UNCHANGED <<synthesizer_config, input_janus_queue, cur, output_bytes_io,
                   fed, taken>>
    /\ UNCHANGED <<agentVars, ctorVars>>

\* ================================================================== specs

Init ==
    /\ AgentInit
    /\ AudioIdle
    /\ synthesizer_config = [sampling_rate |-> 8000, audio_encoding |-> "mulaw"]
    /\ Constructed

Next ==
    \/ \E c \in Calls : Respond(c)
    \/ \E c \in Calls : RespondReturn(c)
    \/ \E c \in Calls : RespondRaise(c)
    \/ \E c \in Calls : GenerateResponse(c)
    \/ \E c \in Calls : FirstPull(c)
    \/ \E c \in Calls : NextPull(c)
    \/ \E c \in Calls : RegisterGetter(c)
    \/ \E c \in Calls : Resume(c)
    \/ \E c \in Calls : Abandon(c)
    \/ \E c \in Calls : PredictStart(c)
    \/ \E c \in Calls : OnLlmNewToken(c)
    \/ \E c \in Calls : OnLlmEnd(c)
    \/ \E c \in Calls : PredictReturn(c)
    \/ \E c \in Calls : PredictFail(c)

Spec == Init /\ [][Next]_vars

InitAudio ==
    /\ AgentInit
    /\ AudioIdle
    /\ synthesizer_config \in Configs
    /\ Constructed

NextAudio ==
    \/ \E item \in Items : Feed(item)
    \/ GetEndOfStream
    \/ GetChunk
    \/ DecodeOk
    \/ DecodeError
    \/ ResampleOk
    \/ ResampleError
    \/ EmitChunk

SpecAudio == InitAudio /\ [][NextAudio]_vars

\* Construction of an agent from any prompt_template, followed by calls on it.
InitCtor ==
    /\ kind = [c \in Calls |-> "none"]
    /\ cst = [c \in Calls |-> "none"]
    /\ pst = [c \in Calls |-> "none"]
    /\ emitted = [c \in Calls |-> 0]
    /\ yielded = [c \in Calls |-> <<>>]
    /\ endedBy = [c \in Calls |-> 0]
    /\ work_queue = <<>>
    /\ callback_queue = <<>>
    /\ getters = <<>>
    /\ memory = <<>>
    /\ overlapped = FALSE
    /\ afterFail = [c \in Calls |-> FALSE]
    /\ AudioIdle
    /\ synthesizer_config = [sampling_rate |-> 8000, audio_encoding |-> "mulaw"]
    /\ prompt_template \in Templates
    /\ init_pc = "start"
    /\ prompt = NoPrompt
    /\ created = {}

NextCtor ==
    \/ InitRaise
    \/ InitPrompt
    \/ InitBackend
    \/ InitMemory
    \/ InitExecutor
    \/ \E c \in 1..MaxCtorCalls : Respond(c)
    \/ \E c \in Calls : RespondReturn(c)
    \/ \E c \in Calls : RespondRaise(c)
    \/ \E c \in 1..MaxCtorCalls : GenerateResponse(c)
    \/ \E c \in Calls : FirstPull(c)
    \/ \E c \in Calls : NextPull(c)
    \/ \E c \in Calls : RegisterGetter(c)
    \/ \E c \in Calls : Resume(c)
    \/ \E c \in Calls : Abandon(c)
    \/ \E c \in Calls : PredictStart(c)
    \/ \E c \in Calls : OnLlmNewToken(c)
    \/ \E c \in Calls : OnLlmEnd(c)
    \/ \E c \in Calls : PredictReturn(c)
    \/ \E c \in Calls : PredictFail(c)

SpecCtor == InitCtor /\ [][NextCtor]_vars

TypeOK ==
    /\ kind \in [Calls -> {"none", "respond", "generate"}]
    /\ cst \in [Calls -> {"none", "awaiting", "returned", "raised", "created",
                          "sawEmpty", "waiting", "woken", "yielded", "ended",
                          "abandoned"}]
    /\ pst \in [Calls -> {"none", "queued", "generating", "llm_end", "returned",
                          "failed"}]
    /\ emitted \in [Calls -> 0..MaxTokens]
    /\ Cardinality({d \in Calls : pst[d] \in {"generating", "llm_end"}}) <= 1

\* ================================================================== claims: agent

IsPrefix(s, t) == Len(s) <= Len(t) /\ \A i \in 1..Len(s) : s[i] = t[i]

\* A generate_response consumer that has started and neither ended nor been abandoned.
Iterating == {"sawEmpty", "waiting", "woken", "yielded"}

\* No other call has been made on the agent.
Alone(c) == \A d \in Calls \ {c} : kind[d] = "none"

\* C1 (as claimed): of two generate_response calls whose consumption overlaps,
\* neither consumer reads a token or a finish marker produced for the other.
\* (A consumer that holds an item of a call still being iterated read it while
\* both were iterating.)
C1_OverlappingStreamsDisjoint ==
    \A c \in Calls : \A d \in Calls \ {c} :
        (kind[c] = "generate" /\ kind[d] = "generate" /\ cst[d] \in Iterating) =>
            /\ \A i \in 1..Len(yielded[c]) : yielded[c][i].call # d
            /\ endedBy[c] # d

\* An earlier call that is over for its caller: a respond that has returned,
\* or a generate_response whose consumer abandoned iteration.
Finished(d) ==
    \/ kind[d] = "respond" /\ cst[d] = "returned"
    \/ kind[d] = "generate" /\ cst[d] = "abandoned"

\* C2 (as claimed): as long as no call was submitted while another was in
\* progress, a generate_response consumer never yields a token, and never
\* stops on a finish marker, produced by a call that is over (which, without
\* overlap, was over before this consumer's call was submitted).
C2_FreshChannelPerCall ==
    ~overlapped =>
        \A c \in Calls : \A d \in Calls \ {c} :
            (kind[c] = "generate" /\ Finished(d)) =>
                /\ \A i \in 1..Len(yielded[c]) : yielded[c][i].call # d
                /\ endedBy[c] # d

\* C3: the consumer of the only call made on an agent yields a prefix of its
\* predict call's tokens, in generation order and never a finish marker; it
\* ends only by reading its own finish marker, having then yielded all n
\* tokens, each once, with nothing left on the channel.
C3_SingleStreamYieldsTokensInOrder ==
    \A c \in Calls :
        (kind[c] = "generate" /\ Alone(c)) =>
            /\ IsPrefix(yielded[c], OwnTokens(c))
            /\ \A i \in 1..Len(yielded[c]) : ~yielded[c][i].finish
            /\ cst[c] = "ended" =>
                  /\ yielded[c] = OwnTokens(c)
                  /\ endedBy[c] = c
                  /\ pst[c] \in {"llm_end", "returned"}
                  /\ callback_queue = <<>>

\* C3 witness: the only call's consumer has ended after yielding two tokens.
C3_Witness ==
    \E c \in Calls :
        /\ kind[c] = "generate"
        /\ Alone(c)
        /\ cst[c] = "ended"
        /\ Len(yielded[c]) = 2

\* C4 (as claimed): once a predict call has failed and its caller is neither
\* in the middle of a step nor gone, the caller has been given the error; and
\* the failed call is not on the worker's queue again.
C4_FailureDeliveredToCaller ==
    \A c \in Calls :
        pst[c] = "failed" =>
            /\ cst[c] \in {"waiting", "ended", "returned", "raised"} => cst[c] = "raised"
            /\ \A i \in 1..Len(work_queue) : work_queue[i] # c

\* C5 (as claimed): a consumer is not left suspended on the channel read once
\* its predict call has returned or failed and the worker has nothing to run.
C5_ConsumerNotLeftSuspended ==
    \A c \in Calls :
        (/\ kind[c] = "generate"
         /\ pst[c] \in {"returned", "failed"}
         /\ ~WorkerBusy
         /\ work_queue = <<>>) => cst[c] # "waiting"

\* C6 (as claimed): a call submitted after a predict call has failed is served
\* like any other: a respond returns only with its predict call's result, and
\* the tokens and finish marker of a generate_response go to no other call's
\* consumer.
C6_NextCallServedAfterFailure ==
    \A d \in Calls :
        afterFail[d] =>
            /\ (kind[d] = "respond" /\ cst[d] = "returned") => pst[d] = "returned"
            /\ kind[d] = "generate" =>
                  \A e \in Calls \ {d} :
                      /\ \A i \in 1..Len(yielded[e]) : yielded[e][i].call # d
                      /\ endedBy[e] # d

\* C10: every successful predict call appends exactly its exchange, the human
\* input then the response, at the end of the history; nothing else changes
\* the history, whose first entry stays the system preamble; and when respond
\* returns to its caller both turns of its exchange are in the history, in order.
C10_HistoryAppend ==
    [][/\ memory'[1] = SystemMessage
       /\ \A c \in Calls :
             (pst[c] # "returned" /\ pst'[c] = "returned") =>
                 memory' = memory \o <<HumanMessage(c), AIMessage(c)>>
       /\ (\A c \in Calls : pst[c] = "returned" <=> pst'[c] = "returned") =>
             memory' = memory
       /\ \A c \in Calls :
             (kind[c] = "respond" /\ cst[c] = "awaiting" /\ cst'[c] = "returned") =>
                 \E k \in 1..Len(memory) :
                     /\ k + 1 <= Len(memory)
                     /\ memory[k] = HumanMessage(c)
                     /\ memory[k + 1] = AIMessage(c)
      ]_vars

\* C10 witness: two respond calls have returned and the history holds the
\* preamble and their four turns.
C10_Witness ==
    /\ \E c \in Calls : \E d \in Calls \ {c} :
          /\ kind[c] = "respond" /\ cst[c] = "returned"
          /\ kind[d] = "respond" /\ cst[d] = "returned"
    /\ Len(memory) = 5

\* The predict calls inside conversation.predict on the executor.
Running == {c \in Calls : pst[c] \in {"generating", "llm_end"}}

\* The history is the preamble followed by whole exchanges: a human turn
\* directly followed by the response of the same call.
WholeExchanges ==
    /\ Len(memory) % 2 = 1
    /\ \A k \in 1..Len(memory) :
          k % 2 = 0 => \E c \in Calls : /\ memory[k] = HumanMessage(c)
                                        /\ memory[k + 1] = AIMessage(c)

\* C12: at most one predict call runs at any time; work items wait in
\* submission order (a submission joins the end of the queue) and a predict
\* call starts only when no other runs and it is the oldest one waiting, so
\* calls start in submission order; the history is changed only by the one
\* running call, which appends its two turns together, so exchanges are never
\* interleaved.
C12_PredictCallsSerialInOrder ==
    [][/\ Cardinality(Running) <= 1
       /\ Cardinality(Running') <= 1
       /\ \A c \in Calls :
             (pst[c] = "none" /\ pst'[c] # "none") =>
                 /\ pst'[c] = "queued"
                 /\ work_queue' = Append(work_queue, c)
       /\ \A c \in Calls :
             (pst[c] = "queued" /\ pst'[c] # "queued") =>
                 /\ pst'[c] = "generating"
                 /\ Running = {}
                 /\ work_queue # <<>>
                 /\ c = Head(work_queue)
                 /\ work_queue' = Tail(work_queue)
       /\ work_queue' # work_queue =>
             \E c \in Calls : pst[c] \in {"none", "queued"} /\ pst'[c] # pst[c]
       /\ memory' # memory =>
             \E c \in Running :
                 /\ Running' = {}
                 /\ memory' = memory \o <<HumanMessage(c), AIMessage(c)>>
       /\ WholeExchanges'
      ]_vars

\* C12 witness: the second call made was submitted first and is running while
\* the first call made, submitted after it, waits in the queue.
C12_Witness ==
    /\ pst[2] = "generating"
    /\ pst[1] = "queued"
    /\ work_queue = <<1>>

\* C13: no wake-up is lost: while a consumer is suspended in
\* callback_queue.get() with its getter registered, either the queue is empty
\* or a reader woken by a write is about to run and take an item.
C13_NoLostWakeup ==
    \A c \in Calls :
        cst[c] = "waiting" =>
            \/ callback_queue = <<>>
            \/ \E d \in Calls : cst[d] = "woken"

\* C18: the step in which a generate_response consumer stops reading changes
\* neither its predict call nor the work queue nor the channel; and once the
\* consumer is gone its predict call is never held up: while it generates,
\* the callback can put a token and the finish marker whoever reads or does
\* not read the queue, after the finish marker predict can return, and once it
\* has returned or failed the worker can start the next submission.
C18_AbandonedCallRunsOn ==
    [][/\ \A c \in Calls :
             (cst[c] # "abandoned" /\ cst'[c] = "abandoned") =>
                 /\ pst' = pst
                 /\ work_queue' = work_queue
                 /\ callback_queue' = callback_queue
                 /\ memory' = memory
       /\ \A c \in Calls :
             cst[c] = "abandoned" =>
                 /\ pst[c] # "none"
                 /\ pst[c] = "generating" =>
                       /\ ENABLED OnLlmEnd(c)
                       /\ ENABLED PredictFail(c)
                       /\ EmittedUpTo(MaxCalls) < MaxTokens => ENABLED OnLlmNewToken(c)
                 /\ pst[c] = "llm_end" => ENABLED PredictReturn(c)
                 /\ (pst[c] \in {"returned", "failed"} /\ work_queue # <<>>) =>
                       \/ Running # {}
                       \/ ENABLED PredictStart(Head(work_queue))
      ]_vars

\* C18 witness: the consumer of the first call stopped reading after one
\* token; its predict call went on, put its finish marker on the unread queue
\* and returned, and the worker is running the next call.
C18_Witness ==
    /\ kind[1] = "generate"
    /\ cst[1] = "abandoned"
    /\ Len(yielded[1]) = 1
    /\ pst[1] = "returned"
    /\ \E i \in 1..Len(callback_queue) : callback_queue[i] = FinishOutput(1)
    /\ pst[2] = "generating"

\* The unread part of the channel is made of per-call blocks: items of one
\* call are contiguous, its tokens are in generation order, and its finish
\* marker, if any, is the last item of the call.
BlockStructured(q) ==
    \A i \in 1..Len(q) : \A j \in 1..Len(q) :
        (i < j /\ q[i].call = q[j].call) =>
            /\ \A k \in i..j : q[k].call = q[i].call
            /\ ~q[i].finish
            /\ ~q[j].finish => q[i].token < q[j].token

\* C19: every change of the channel is either a read, which pops its head, or
\* a write by the one predict call then running on the worker, which appends
\* that call's next token or, once and as its last write, its finish marker;
\* a call runs once, after it was the oldest submission waiting, and returns
\* successfully only after its finish marker was written. So the channel, in
\* write order, is one block per predict call, in submission order, each the
\* call's tokens in order then one finish marker when the call succeeded.
C19_ChannelIsBlocksPerCall ==
    [][/\ \/ callback_queue' = callback_queue
          \/ /\ callback_queue # <<>>
             /\ callback_queue' = Tail(callback_queue)
             /\ Running' = Running /\ emitted' = emitted
          \/ \E c \in Calls :
                /\ Running = {c}
                /\ pst[c] = "generating"
                /\ \/ /\ callback_queue' = Append(callback_queue, TokenOutput(c, emitted[c] + 1))
                      /\ emitted' = [emitted EXCEPT ![c] = @ + 1]
                      /\ pst' = pst
                   \/ /\ callback_queue' = Append(callback_queue, FinishOutput(c))
                      /\ emitted' = emitted
                      /\ pst' = [pst EXCEPT ![c] = "llm_end"]
       /\ \A c \in Calls :
             /\ (pst'[c] = "generating" /\ pst[c] # "generating") =>
                   (pst[c] = "queued" /\ c = Head(work_queue) /\ emitted[c] = 0)
             /\ (pst'[c] = "queued" /\ pst[c] # "queued") =>
                   (pst[c] = "none" /\ work_queue' = Append(work_queue, c))
             /\ (pst'[c] = "llm_end" /\ pst[c] # "llm_end") =>
                   callback_queue' = Append(callback_queue, FinishOutput(c))
             /\ (pst'[c] = "returned" /\ pst[c] # "returned") => pst[c] = "llm_end"
             /\ emitted'[c] # emitted[c] =>
                   callback_queue' = Append(callback_queue, TokenOutput(c, emitted[c] + 1))
       /\ BlockStructured(callback_queue')
      ]_vars

\* C19 witness: nobody has read the channel; it holds the block of a respond
\* call (a token and its finish marker) followed by the token of the
\* generate_response call submitted after it.
C19_Witness ==
    /\ \E c \in Calls : \E d \in Calls \ {c} :
          /\ kind[c] = "respond"
          /\ kind[d] = "generate"
          /\ callback_queue = <<TokenOutput(c, 1), FinishOutput(c), TokenOutput(d, 1)>>

\* The call c left no trace: nothing submitted, nothing of it in the history,
\* on the channel or yielded to a consumer.
NoTraceOf(c) ==
    /\ pst[c] = "none"
    /\ emitted[c] = 0
    /\ \A i \in 1..Len(work_queue) : work_queue[i] # c
    /\ \A i \in 1..Len(memory) : memory[i].call # c
    /\ \A i \in 1..Len(callback_queue) : callback_queue[i].call # c
    /\ \A d \in Calls : \A i \in 1..Len(yielded[d]) : yielded[d][i].call # c

\* C20: calling generate_response changes nothing but the new generator: no
\* submission, history and channel as they were; as long as the generator has
\* not been pulled its call leaves no trace; the first pull, and only it,
\* submits the predict call, once, at the end of the work queue, so predict
\* calls reach the worker in the order of the first pulls.
C20_SubmittedOnFirstPull ==
    [][\A c \in Calls :
          /\ (kind[c] = "none" /\ kind'[c] = "generate") =>
                /\ cst'[c] = "created"
                /\ pst' = pst
                /\ work_queue' = work_queue
                /\ memory' = memory
                /\ callback_queue' = callback_queue
          /\ (kind[c] = "generate" /\ cst[c] = "created") => NoTraceOf(c)
          /\ (cst[c] = "created" /\ cst'[c] # "created") =>
                /\ pst' = [pst EXCEPT ![c] = "queued"]
                /\ work_queue' = Append(work_queue, c)
          /\ (kind[c] = "generate" /\ pst'[c] # pst[c] /\ pst'[c] = "queued") =>
                (cst[c] = "created" /\ cst'[c] # "created")
          /\ cst'[c] = "created" => cst[c] \in {"none", "created"}
          /\ (kind[c] = "generate" /\ cst[c] # "created") =>
                Cardinality({i \in 1..Len(work_queue) : work_queue[i] = c})
                    = (IF pst[c] = "queued" THEN 1 ELSE 0)
      ]_vars

\* C20 witness: generate_response was called twice; the second sequence was
\* pulled first, so its predict call is ahead of the first one's in the queue.
C20_Witness ==
    /\ kind[1] = "generate"
    /\ kind[2] = "generate"
    /\ work_queue = <<2, 1>>

\* ================================================================== claims: construction

\* C11: with a prompt_template that is a string other than "alpaca", __init__
\* raises before anything is created (no callback queue or backend, no
\* history, no executor) and no call is ever made on the agent; with "alpaca",
\* no template or a template object, __init__ never raises and the agent it
\* returns has the matching prompt and every attribute; calls are made only on
\* a constructed agent.
C11_UnknownTemplateFailsConstruction ==
    /\ (prompt_template.type = "str" /\ prompt_template.value # "alpaca") =>
          /\ init_pc \in {"start", "raised"}
          /\ created = {}
          /\ memory = <<>>
          /\ prompt = NoPrompt
          /\ \A c \in Calls : kind[c] = "none"
    /\ prompt_template \in {StrTemplate("alpaca"), NoTemplate, TemplateObject} =>
          /\ init_pc # "raised"
          /\ init_pc = "constructed" =>
                /\ created = AllCreated
                /\ memory[1] = SystemMessage
                /\ prompt = (IF prompt_template = StrTemplate("alpaca") THEN AlpacaPrompt
                             ELSE IF prompt_template = NoTemplate THEN DefaultChatPrompt
                             ELSE CustomPrompt)
    /\ \A c \in Calls : kind[c] # "none" => init_pc = "constructed"

\* C11 witness: construction with the template name "unknown" has raised.
C11_Witness ==
    /\ prompt_template = StrTemplate("unknown")
    /\ init_pc = "raised"

\* ================================================================== claims: audio

\* An input item that ends a stream: an absent chunk, or is_last set.
Terminal(item) == item[1] = None \/ item[2]

\* Items k and j (k <= j) of the input belong to the same stream.
SameStream(k, j) == \A i \in k..(j - 1) : ~Terminal(fed[i])

\* Item j is the first item of a stream.
StreamStart(j) == j = 1 \/ Terminal(fed[j - 1])

\* The worker has finished its iteration for the n-th input item.
Consumed(n) == taken > n \/ (taken = n /\ wpc = "WaitingForChunk")

\* The outputs produced for the input items j..n, in output order.
StreamOutput(j, n) ==
    LET FromStream(p) == out_src[p] \in j..n
        idx == SelectSeq([p \in 1..Len(output_janus_queue) |-> p], FromStream)
    IN  [i \in 1..Len(idx) |-> output_janus_queue[idx[i]]]

\* s is M non-terminal chunks that decode and resample, then an absent chunk.
IsCleanStream(s) ==
    /\ Len(s) >= 1
    /\ s[Len(s)][1] = None
    /\ \A i \in 1..(Len(s) - 1) :
          /\ s[i][1] # None
          /\ ~DecodeFails(s[i][1])
          /\ ~ResampleFails(s[i][1])
          /\ ~s[i][2]

CleanOutput(s) ==
    [i \in 1..Len(s) |->
        IF i < Len(s)
        THEN <<ConvertWav(DecodeMp3(s[i][1]), synthesizer_config), FALSE>>
        ELSE <<None, TRUE>>]

\* What one iteration of the loop puts on the output for an item, as a
\* function of that item alone.
Expected(item) ==
    IF item[1] = None \/ DecodeFails(item[1])
    THEN <<None, TRUE>>
    ELSE <<ConvertWav(DecodeMp3(item[1]), synthesizer_config), item[2]>>

\* C7 (as claimed): after a decode failure at a chunk of a stream, the failure's
\* (None, True) is the last output of that stream: no later chunk of the same
\* stream is processed or emitted, so the stream's output holds one is_last item
\* and nothing after it.
C7_NothingAfterFailureInStream ==
    \A p \in 1..Len(output_janus_queue) :
        (fed[out_src[p]][1] # None /\ DecodeFails(fed[out_src[p]][1])) =>
            /\ output_janus_queue[p] = <<None, TRUE>>
            /\ \A q \in (p + 1)..Len(output_janus_queue) :
                  ~SameStream(out_src[p], out_src[q])

\* C8: a stream of M chunks that all decode and resample, followed by an
\* absent chunk, yields the M converted chunks in input order, each with
\* is_last false, then exactly one (None, True): a prefix of that while the
\* stream is being processed, all of it once its last item is consumed.
C8_CleanStreamOneToOne ==
    \A j \in 1..Len(fed) : \A n \in j..Len(fed) :
        (StreamStart(j) /\ IsCleanStream(SubSeq(fed, j, n))) =>
            /\ IsPrefix(StreamOutput(j, n), CleanOutput(SubSeq(fed, j, n)))
            /\ Consumed(n) => StreamOutput(j, n) = CleanOutput(SubSeq(fed, j, n))

\* C8 witness: a stream of at least two good chunks and its terminal marker
\* has been fully processed.
C8_Witness ==
    \E n \in 3..Len(fed) : IsCleanStream(SubSeq(fed, 1, n)) /\ Consumed(n)

\* C9: a decode failure puts (None, True) and leaves the worker running (the
\* loop only ever ends on a convert_wav error); every output is the Expected
\* result of its own input item, whatever failed before it; and the input
\* [(A, False), (X, True)], X failing to decode, yields [(wavA, False), (None, True)].
C9_DecodeFailureRecovered ==
    /\ wpc = "Exited" => (cur[1] # None /\ ResampleFails(cur[1]))
    /\ \A p \in 1..Len(output_janus_queue) :
          /\ out_src[p] = p
          /\ output_janus_queue[p] = Expected(fed[p])
    /\ \A k \in 1..taken :
          (fed[k][1] # None /\ DecodeFails(fed[k][1]) /\ Consumed(k)) =>
              /\ Len(output_janus_queue) >= k
              /\ output_janus_queue[k] = <<None, TRUE>>
    /\ (/\ fed = <<<<Mp3("A"), FALSE>>, <<Mp3("X"), TRUE>>>>
        /\ Consumed(2)) =>
          output_janus_queue =
              <<<<ConvertWav(DecodeMp3(Mp3("A")), synthesizer_config), FALSE>>,
                <<None, TRUE>>>>

\* C9 witness: a chunk failed to decode and a chunk fed after it was emitted.
C9_Witness ==
    \E k \in 1..Len(output_janus_queue) : \E p \in (k + 1)..Len(output_janus_queue) :
        /\ fed[k][1] # None
        /\ DecodeFails(fed[k][1])
        /\ output_janus_queue[p][1] # None
        /\ wpc = "WaitingForChunk"

\* C14: whenever the worker is back in WaitingForChunk it has put exactly as
\* many items on the output as it has taken from the input, and the i-th
\* output was put while processing the i-th input taken (which is the i-th
\* item fed); while an item is being processed the output is one item behind.
C14_OneOutputPerInput ==
    /\ wpc = "WaitingForChunk" =>
          /\ Len(output_janus_queue) = taken
          /\ \A p \in 1..taken :
                /\ out_src[p] = p
                /\ output_janus_queue[p][1] # None =>
                      output_janus_queue[p][1].wav = fed[p][1].mp3
    /\ wpc \in {"Decoding", "Resampling", "Emitting"} =>
          Len(output_janus_queue) = taken - 1

\* C14 witness: the worker is waiting again after four items, among them a
\* chunk that failed to decode, a converted chunk and an end-of-stream marker.
C14_Witness ==
    /\ wpc = "WaitingForChunk"
    /\ taken = 4
    /\ Len(output_janus_queue) = 4
    /\ \E p \in 1..4 : DecodeFails(fed[p][1])
    /\ \E p \in 1..4 : fed[p][1] = None
    /\ \E p \in 1..4 : output_janus_queue[p][1] # None

\* C15: the loop never exits: there is no state in which _run_loop has ended,
\* leaving the items still on the input channel, and those fed later, unconsumed.
C15_LoopNeverExits ==
    ~(wpc = "Exited" /\ input_janus_queue # <<>>)

\* C16: the step in which the worker takes an item whose chunk is None puts
\* exactly <<None, TRUE>> on the output, whatever the item's is_last flag,
\* decodes and resamples nothing, and leaves the worker waiting for the next
\* item; so every end-of-stream item taken so far, of whichever stream, has
\* its own <<None, TRUE>> at its own position of the output.
C16_AbsentChunkForwarded ==
    [][/\ (taken' = taken + 1 /\ Head(input_janus_queue)[1] = None) =>
             /\ output_janus_queue' = Append(output_janus_queue, <<None, TRUE>>)
             /\ output_bytes_io' = output_bytes_io
             /\ wpc' = "WaitingForChunk"
             /\ input_janus_queue' = Tail(input_janus_queue)
       /\ \A p \in 1..Len(output_janus_queue') :
             fed'[p][1] = None =>
                 /\ out_src'[p] = p
                 /\ output_janus_queue'[p] = <<None, TRUE>>
      ]_vars

\* C16 witness: two streams have been processed, the first ended by an absent
\* chunk with is_last false, the second by one with is_last true, and each
\* has its terminal marker on the output.
C16_Witness ==
    /\ wpc = "WaitingForChunk"
    /\ taken = 4
    /\ fed[1][1] # None /\ fed[2] = <<None, FALSE>>
    /\ fed[3][1] # None /\ fed[4] = <<None, TRUE>>
    /\ output_janus_queue[2] = <<None, TRUE>>
    /\ output_janus_queue[3][1] # None
    /\ output_janus_queue[4] = <<None, TRUE>>

\* C17: the output put for a chunk that decoded is that chunk alone, decoded
\* and converted to the configured rate and encoding, with the is_last flag of
\* its input item; two equal input items give equal outputs whatever was
\* processed before each of them.
C17_ChunkOutputIndependent ==
    /\ \A p \in 1..Len(output_janus_queue) :
          (fed[p][1] # None /\ ~DecodeFails(fed[p][1])) =>
              /\ output_janus_queue[p][1] =
                     ConvertWav(DecodeMp3(fed[p][1]), synthesizer_config)
              /\ output_janus_queue[p][2] = fed[p][2]
    /\ \A p \in 1..Len(output_janus_queue) : \A q \in 1..Len(output_janus_queue) :
          fed[p] = fed[q] => output_janus_queue[p] = output_janus_queue[q]

\* C17 witness: chunk "A" was processed first and again, as the last item of
\* its stream, after chunk "B"; both outputs carry the audio of "A".
C17_Witness ==
    /\ Len(output_janus_queue) = 3
    /\ fed[1] = <<Mp3("A"), FALSE>>
    /\ fed[2] = <<Mp3("B"), FALSE>>
    /\ fed[3] = <<Mp3("A"), TRUE>>
    /\ output_janus_queue[1][1].wav = "A"
    /\ output_janus_queue[3][1].wav = "A"
    /\ output_janus_queue[3][2] = TRUE

====
